---- MODULE Spec2Model ----
(***************************************************************************)
(* A model of nanopb::PoissonBlend (include/nanopb/nanopb.h) and of the    *)
(* call main() makes to it.                                                *)
(*                                                                         *)
(* One call is a run of the state machine: the sanity check, the index     *)
(* pass (varMap), the matrix pass (the triplets), the factorization, the   *)
(* three right-hand sides and solves, the compositor.  Every pass is one   *)
(* action that performs the whole loop of the source.                      *)
(*                                                                         *)
(* Numbers.  `unsigned int` is a word of UINT_MOD values (the source's     *)
(* 2^32 scaled down so that TLC's integers hold every product);        *)
(* every unsigned expression of the source is reduced with U.  A float     *)
(* channel value v is held as the integer v * FIX, FIX = 2^24: every float *)
(* in [0.5, 1] is exactly of that form, and so are 0, 0.25 and the other   *)
(* values used here.                                                       *)
(***************************************************************************)
EXTENDS Integers, Sequences, FiniteSets, TLC

\* ------------------------------------------------------------------ bounds

\* the number of values of the model's unsigned word
UINT_MOD == 65536
\* mask (and source) images have at most MaxMaskPixels pixels
MaxMaskPixels == 4
\* target images are MaxTargetW-1..MaxTargetW wide, MaxTargetH-1..MaxTargetH high
MaxTargetW == 5
MaxTargetH == 6

UINT_MAX == UINT_MOD - 1

\* ------------------------------------------------------------------ numbers

\* a float v is the integer v * FIX
FIX == 16777216
WHITE == FIX
GRAY == FIX \div 2
\* the two floats next to 0.99: 16609443/2^24 < 0.99 < 16609444/2^24
RED_BELOW == (99 * FIX) \div 100
RED_ABOVE == (99 * FIX) \div 100 + 1

\* unsigned int arithmetic: the value of an unsigned expression
U(v) == v % UINT_MOD

\* the conversion unsigned int -> int (the result type of targetFlatten)
ToInt(u) == IF u >= UINT_MOD \div 2 THEN u - UINT_MOD ELSE u

\* clamp(x): line 50
clamp(x) == IF x > FIX THEN FIX ELSE IF x < 0 THEN 0 ELSE x

\* (unsigned char)(pow(v, gamma) * 255.0f) with gamma = 2.2f, for the floats
\* of the model (the values the source's expression yields, truncated):
\*   pow(0.25, 2.2) * 255 = 12.08    pow(0.5, 2.2) * 255 = 55.50
\*   pow(0.75, 2.2) * 255 = 135.4    pow(0.99 -+ 1ulp, 2.2) * 255 = 249.4
GammaEncode(v) ==
  CASE v = 0 -> 0
    [] v = FIX \div 4 -> 12
    [] v = FIX \div 2 -> 55
    [] v = 3 * (FIX \div 4) -> 135
    [] v = RED_BELOW -> 249
    [] v = RED_ABOVE -> 249
    [] v = FIX -> 255

\* ------------------------------------------------------------------ state

VARIABLES
  maskImage,        \* [data, width, height]: data[i] is the RED channel of pixel i
  sourceImage,      \* [data, width, height]: data[i] is <<r, g, b>>
  targetImage,      \* [data, width, height]: data[i] is <<r, g, b>>
  mx, my,           \* the placement
  outImage,         \* the caller's output vector (a sequence of bytes)
  outEntry,         \* outImage as it was when PoissonBlend was entered
  pc,               \* where the call is
  ret,              \* "none" until the call returns, then TRUE or FALSE
  varMap,           \* std::map: mask-flattened coordinate |-> variable number
  numUnknowns,
  mt,               \* the triplets, in push_back order
  mat,              \* the matrix setFromTriplets builds: <<r, c>> |-> value
  info,             \* what solver.info() would report
  bvec,             \* bvec[ic]: the vector b handed to the ic-th solve
  solutionChannels,
  junk,             \* what the memory outside the buffers holds during the call
  maskReads,        \* the probes of the matrix pass: [x, y, idx, val]
  sourceReads       \* the source reads of the right-hand-side pass: [x, y, idx]

vars == <<maskImage, sourceImage, targetImage, mx, my, outImage, outEntry, pc,
          ret, varMap, numUnknowns, mt, mat, info, bvec, solutionChannels,
          junk, maskReads, sourceReads>>

inputs == <<maskImage, sourceImage, targetImage, mx, my, outEntry>>

\* --------------------------------------------------------------- the images

Size(img) == img.width * img.height

\* the three floats the images of the model are painted with
Levels == <<FIX \div 4, FIX \div 2, 3 * (FIX \div 4)>>
Level(k) == Levels[(k % 3) + 1]

\* a target whose neighbouring pixels and channels differ
TargetRamp(w, h) ==
  [data |-> [i \in 0 .. w * h - 1 |-> <<Level(i), Level(i + 1), Level(i + 2)>>],
   width |-> w, height |-> h]

SourceRamp(w, h) ==
  [data |-> [i \in 0 .. w * h - 1 |-> <<Level(2 * i + 1), Level(2 * i), Level(i)>>],
   width |-> w, height |-> h]

Uniform(w, h, v) ==
  [data |-> [i \in 0 .. w * h - 1 |-> <<v, v, v>>], width |-> w, height |-> h]

\* every mask of w x h pixels whose red channels are next to the threshold
Masks(w, h) ==
  { [data |-> d, width |-> w, height |-> h] :
      d \in [0 .. w * h - 1 -> {RED_BELOW, RED_ABOVE}] }

\* the offsets tried: the near border, inside, and the top of the word
Offsets == {0, 1, 2, UINT_MAX}

\* ------------------------------------------------------- PoissonBlend: check

\* lines 95-102: the sanity check, in unsigned arithmetic
SanityPassed ==
  LET xmin == mx
      ymin == my
      xmax == U(mx + maskImage.width)
      ymax == U(my + maskImage.height)
  IN  /\ xmin > 0
      /\ ymin > 0
      /\ xmax < U(targetImage.width - 1)
      /\ ymax < U(targetImage.height - 1)

\* lines 120-124
targetFlatten(x, y) == ToInt(U(targetImage.width * y + x))
maskFlatten(x, y) == U(maskImage.width * y + x)

\* IsMaskRed with the threshold written 0.99f: the float 0.99f is RED_ABOVE
IsMaskRed_FloatLiteral(r) == r > RED_ABOVE

\* line 130: float > 0.99 (the double 0.99 lies strictly between two floats,
\* as the real 0.99 does, so the comparison is that of v * 100 with 99)
IsMaskRed(r) == r * 100 > 99 * FIX

\* line 130: maskImage.data[maskFlatten(x, y)][0] > 0.99.  An index inside the
\* buffer reads that pixel; an index outside it reads whatever the memory
\* there holds (g).
isMaskPixel(x, y, g) ==
  LET idx == maskFlatten(x, y)
  IN  IF idx < Size(maskImage) THEN IsMaskRed(maskImage.data[idx]) ELSE g[idx]

\* a for loop `for (unsigned v = start; v < start + len; ++v)`: the values
\* of v, in order (none when start + len wraps around)
Loop(start, len) ==
  LET end == U(start + len)
  IN  IF start < end THEN [k \in 1 .. end - start |-> start + k - 1] ELSE <<>>

\* the pixels the loops of lines 165-166 (239-240, 317-318) visit, in order
Visits ==
  LET ys == Loop(my, maskImage.height)
      xs == Loop(mx, maskImage.width)
  IN  [k \in 1 .. Len(ys) * Len(xs) |->
         <<xs[((k - 1) % Len(xs)) + 1], ys[((k - 1) \div Len(xs)) + 1]>>]

\* the four probes of lines 191-206 for the pixel at mask coordinates
\* (lx, ly), in the order of the source: up, right, down, left
Probes(lx, ly) ==
  << <<lx, U(ly - 1)>>, <<U(lx + 1), ly>>, <<lx, U(ly + 1)>>, <<U(lx - 1), ly>> >>

\* the indices outside the mask buffer that the probes of the visited mask
\* pixels land on
OutOfRangeSlots ==
  { maskFlatten(Probes(U(v[1] - mx), U(v[2] - my))[d][1],
                Probes(U(v[1] - mx), U(v[2] - my))[d][2]) :
      v \in { w \in { Visits[k] : k \in DOMAIN Visits } :
                 isMaskPixel(U(w[1] - mx), U(w[2] - my), <<>>) },
      d \in 1 .. 4 }
  \ (0 .. Size(maskImage) - 1)

\* ------------------------------------------------- PoissonBlend: index pass

\* varMap[key] = i (line 147)
MapPut(vm, key, i) ==
  [k \in (DOMAIN vm) \cup {key} |-> IF k = key THEN i ELSE vm[k]]

\* lines 143-151: the scan at pixel k (row-major), i variables given so far
RECURSIVE IndexScan(_, _, _)
IndexScan(k, i, vm) ==
  IF k >= Size(maskImage) THEN vm
  ELSE LET x == k % maskImage.width
           y == k \div maskImage.width
       IN  IF isMaskPixel(x, y, <<>>)
           THEN IndexScan(k + 1, i + 1, MapPut(vm, maskFlatten(x, y), i))
           ELSE IndexScan(k + 1, i, vm)

\* ------------------------------------------------ PoissonBlend: matrix pass

\* varMap[key] of lines 178-205: std::map::operator[] inserts a
\* value-initialized entry (0) for a key that is not in the map
MapAt(vm, key) == IF key \in DOMAIN vm THEN vm ELSE MapPut(vm, key, 0)

\* one `if (isMaskPixel(a, b)) mt.push_back(Triplet(irow, varMap[..], -1))`
ProbeStep(st, a, b, g) ==
  LET idx == maskFlatten(a, b)
      val == isMaskPixel(a, b, g)
      \* deref: maskImage.data[idx] is evaluated, whatever a and b are
      rd == [x |-> a, y |-> b, idx |-> idx, val |-> val, deref |-> TRUE]
      vm == IF val THEN MapAt(st.vm, idx) ELSE st.vm
  IN  [st EXCEPT !.vm = vm,
                 !.mt = IF val THEN Append(st.mt, <<st.irow, vm[idx], -1>>)
                        ELSE st.mt,
                 !.reads = st.reads \cup {rd}]

\* lines 167-209 for one visited pixel
MatrixPixel(st, x, y, g) ==
  LET lx == U(x - mx)
      ly == U(y - my)
      pr == Probes(lx, ly)
      s0 == [st EXCEPT !.vm = MapAt(st.vm, maskFlatten(lx, ly)),
                       !.mt = Append(st.mt,
                                <<st.irow,
                                  MapAt(st.vm, maskFlatten(lx, ly))
                                    [maskFlatten(lx, ly)], 4>>)]
      s1 == ProbeStep(s0, pr[1][1], pr[1][2], g)
      s2 == ProbeStep(s1, pr[2][1], pr[2][2], g)
      s3 == ProbeStep(s2, pr[3][1], pr[3][2], g)
      s4 == ProbeStep(s3, pr[4][1], pr[4][2], g)
  IN  IF isMaskPixel(lx, ly, g) THEN [s4 EXCEPT !.irow = s4.irow + 1] ELSE st

\* lines 162-212: the loops, from the k-th visited pixel on
RECURSIVE MatrixScan(_, _, _)
MatrixScan(k, st, g) ==
  IF k > Len(Visits) THEN st
  ELSE LET nst == MatrixPixel(st, Visits[k][1], Visits[k][2], g)
       IN  \* (the test is true: it has the pixel evaluated before the next)
           IF nst.irow >= 0 THEN MatrixScan(k + 1, nst, g) ELSE st

\* lines 219-220: setFromTriplets sums the triplets of one place; the
\* triplets of the pass hold 4 or -1
SumAt(r, c) ==
  4 * Cardinality({ j \in DOMAIN mt : mt[j] = <<r, c, 4>> })
  - Cardinality({ j \in DOMAIN mt : mt[j] = <<r, c, -1>> })

FromTriplets ==
  [rc \in (0 .. numUnknowns - 1) \X (0 .. numUnknowns - 1) |->
     SumAt(rc[1], rc[2])]

\* line 221: solver.compute(mat).  The factorization itself is Eigen's; of
\* its outcome the model keeps what is certain: a matrix with unknowns whose
\* diagonal is all zero has a zero first pivot under every ordering (it is
\* not positive definite), and the factorization reports a numerical issue.
SolverInfo(m, n) ==
  IF n > 0 /\ \A i \in 0 .. n - 1 : m[<<i, i>>] = 0
  THEN "NumericalIssue" ELSE "Success"

\* ----------------------------------------- PoissonBlend: right-hand sides

\* lines 68-73
vpq(fpstar, fqstar, gp, gq) == gp - gq

\* Boundary with the test inverted
Boundary_Inverted(inMask, t) == IF inMask THEN t ELSE 0

\* lines 283-294: `if (!isMaskPixel(..)) b[irow] += targetImage.data[..][ic]`:
\* what a neighbour adds to b, inMask being what its probe returned
Boundary(inMask, t) == IF ~inMask THEN t ELSE 0

\* sourceImage.data[idx] and targetImage.data[idx]; outside the buffer, the
\* memory there (every channel reads jf)
SourceAt(idx, jf) ==
  IF idx \in DOMAIN sourceImage.data THEN sourceImage.data[idx]
  ELSE <<jf, jf, jf>>
TargetAt(idx, jf) ==
  IF idx \in DOMAIN targetImage.data THEN targetImage.data[idx]
  ELSE <<jf, jf, jf>>

\* the source indices lines 243-273 read for the pixel at mask coordinates
\* (lx, ly): the pixel, then up, left, down, right
SourceIdx(lx, ly) ==
  << maskFlatten(lx, ly), maskFlatten(lx, U(ly - 1)), maskFlatten(U(lx - 1), ly),
     maskFlatten(lx, U(ly + 1)), maskFlatten(U(lx + 1), ly) >>

\* lines 241-296 for one visited pixel and channel ic (c = ic + 1)
RhsPixel(st, x, y, c, g, jf) ==
  LET lx == U(x - mx)
      ly == U(y - my)
      si == SourceIdx(lx, ly)
      v == SourceAt(si[1], jf)
      u == TargetAt(targetFlatten(x, y), jf)
      tUp == TargetAt(targetFlatten(x, U(y - 1)), jf)[c]
      tLeft == TargetAt(targetFlatten(U(x - 1), y), jf)[c]
      tDown == TargetAt(targetFlatten(x, U(y + 1)), jf)[c]
      tRight == TargetAt(targetFlatten(U(x + 1), y), jf)[c]
      grad == vpq(u[c], tUp, v[c], SourceAt(si[2], jf)[c])
              + vpq(u[c], tLeft, v[c], SourceAt(si[3], jf)[c])
              + vpq(u[c], tDown, v[c], SourceAt(si[4], jf)[c])
              + vpq(u[c], tRight, v[c], SourceAt(si[5], jf)[c])
      pr == Probes(lx, ly)
      bnd == Boundary(isMaskPixel(pr[1][1], pr[1][2], g), tUp)
             + Boundary(isMaskPixel(pr[2][1], pr[2][2], g), tRight)
             + Boundary(isMaskPixel(pr[3][1], pr[3][2], g), tDown)
             + Boundary(isMaskPixel(pr[4][1], pr[4][2], g), tLeft)
  IN  IF isMaskPixel(lx, ly, g)
      THEN [b |-> [st.b EXCEPT ![st.irow] = grad + bnd],
            irow |-> st.irow + 1,
            reads |-> st.reads \cup
                        { [x |-> lx, y |-> ly, d |-> d, idx |-> si[d]] :
                            d \in 1 .. 5 }]
      ELSE st

RECURSIVE RhsScan(_, _, _, _, _)
RhsScan(k, st, c, g, jf) ==
  IF k > Len(Visits) THEN st
  ELSE LET nst == RhsPixel(st, Visits[k][1], Visits[k][2], c, g, jf)
       IN  \* (the test is true: it has the pixel evaluated before the next)
           IF nst.irow >= 0 THEN RhsScan(k + 1, nst, c, g, jf) ELSE st

\* lines 225-299 for channel ic, b being what the previous channel left
\* (before the first: the uninitialized Vec b(numUnknowns))
RhsChannel(b, c, g, jf) == RhsScan(1, [b |-> b, irow |-> 0, reads |-> {}], c, g, jf)

\* the source indices the pass reads outside the source buffer
SourceOutOfRange ==
  { w \in { Visits[k] : k \in DOMAIN Visits } :
      /\ isMaskPixel(U(w[1] - mx), U(w[2] - my), <<>>)
      /\ \E d \in 1 .. 5 :
           SourceIdx(U(w[1] - mx), U(w[2] - my))[d] \notin DOMAIN sourceImage.data }

\* the floats the memory outside the buffers (and the uninitialized b) may hold
JunkFloats == {0, WHITE}

\* line 302: solver.solve(b).  The arithmetic of the solve is Eigen's and is
\* not modelled: the vectors it returns are drawn from a family whose entries
\* lie below 0, inside [0, 1] and above 1 (the three branches of clamp).
SolveValues == <<0 - (FIX \div 2), FIX \div 2, 2 * FIX>>
Solution(sel, n) ==
  [c \in 1 .. 3 |-> [i \in 0 .. n - 1 |-> SolveValues[((sel + c + i) % 3) + 1]]]

\* ------------------------------------------------ PoissonBlend: compositor

\* lines 308-314: the bytes pushed for target pixel i
TargetBytes(i) ==
  << GammaEncode(targetImage.data[i][1]), GammaEncode(targetImage.data[i][2]),
     GammaEncode(targetImage.data[i][3]), 255 >>

\* lines 308-314: outImage after the push_backs of the first loop
PushTarget(out) ==
  out \o [k \in 1 .. 4 * Size(targetImage) |->
            TargetBytes((k - 1) \div 4)[((k - 1) % 4) + 1]]

\* OutIndex flattened with the mask's width
OutIndex_MaskFlatten(x, y, c) == 4 * maskFlatten(x, y) + c + 1

\* the place of byte c of pixel (x, y) in outImage (lines 329-333), as an
\* index of the sequence
OutIndex(x, y, c) == 4 * targetFlatten(x, y) + c + 1

\* lines 319-335 for one visited pixel
ComposePixel(out, x, y) ==
  LET lx == U(x - mx)
      ly == U(y - my)
      i == MapAt(varMap, maskFlatten(lx, ly))[maskFlatten(lx, ly)]
      col == [c \in 1 .. 3 |-> clamp(solutionChannels[c][i])]
  IN  IF isMaskPixel(lx, ly, <<>>)
      THEN [out EXCEPT ![OutIndex(x, y, 0)] = GammaEncode(col[1]),
                       ![OutIndex(x, y, 1)] = GammaEncode(col[2]),
                       ![OutIndex(x, y, 2)] = GammaEncode(col[3])]
      ELSE out

RECURSIVE ComposeScan(_, _)
ComposeScan(k, out) ==
  IF k > Len(Visits) THEN out
  ELSE LET nout == ComposePixel(out, Visits[k][1], Visits[k][2])
       IN  \* (the test is true: it has the pixel evaluated before the next)
           IF Len(nout) >= 0 THEN ComposeScan(k + 1, nout) ELSE out

\* ----------------------------------------------------------------- actions

\* lines 93-115
SanityCheck ==
  /\ pc = "check"
  /\ IF SanityPassed
     THEN pc' = "index" /\ ret' = ret
     ELSE pc' = "done" /\ ret' = FALSE
  /\ UNCHANGED <<inputs, outImage, varMap, numUnknowns, mt, mat, info, bvec,
                 solutionChannels, junk, maskReads, sourceReads>>

\* lines 141-153
IndexPass ==
  /\ pc = "index"
  /\ varMap' = IndexScan(0, 0, <<>>)
  /\ numUnknowns' = Cardinality(DOMAIN varMap')
  /\ pc' = "matrix"
  /\ UNCHANGED <<inputs, outImage, ret, mt, mat, info, bvec, solutionChannels,
                 junk, maskReads, sourceReads>>

\* lines 162-212
MatrixPass ==
  /\ pc = "matrix"
  /\ \E g \in [OutOfRangeSlots -> BOOLEAN] :
       LET st == MatrixScan(1, [mt |-> <<>>, vm |-> varMap, irow |-> 0,
                                reads |-> {}], g)
       IN  /\ mt' = st.mt
           /\ varMap' = st.vm
           /\ maskReads' = st.reads
           /\ junk' = [junk EXCEPT !.mask = g]
  /\ pc' = "factor"
  /\ UNCHANGED <<inputs, outImage, ret, numUnknowns, mat, info, bvec,
                 solutionChannels, sourceReads>>

\* a read outside the mask buffer (line 130) or outside the source buffer
\* (lines 257-273) may also end the process
Fault ==
  /\ \/ pc = "matrix" /\ OutOfRangeSlots # {}
     \/ pc = "rhs" /\ SourceOutOfRange # {}
  /\ pc' = "fault"
  /\ UNCHANGED <<inputs, outImage, ret, varMap, numUnknowns, mt, mat, info,
                 bvec, solutionChannels, junk, maskReads, sourceReads>>

\* lines 217-222
Factorize ==
  /\ pc = "factor"
  /\ mat' = FromTriplets
  /\ info' = SolverInfo(mat', numUnknowns)
  /\ pc' = "rhs"
  /\ UNCHANGED <<inputs, outImage, ret, varMap, numUnknowns, mt, bvec,
                 solutionChannels, junk, maskReads, sourceReads>>

\* lines 224-303: the three right-hand sides, each handed to solver.solve
RhsAndSolve ==
  /\ pc = "rhs"
  /\ \E jf \in (IF SourceOutOfRange # {} \/ (Len(Visits) = 0 /\ numUnknowns > 0)
                THEN JunkFloats ELSE {0}), sel \in 0 .. 2 :
       LET b0 == [i \in 0 .. numUnknowns - 1 |-> jf]
           r1 == RhsChannel(b0, 1, junk.mask, jf)
           r2 == RhsChannel(r1.b, 2, junk.mask, jf)
           r3 == RhsChannel(r2.b, 3, junk.mask, jf)
       IN  /\ bvec' = <<r1.b, r2.b, r3.b>>
           /\ sourceReads' = r1.reads \cup r2.reads \cup r3.reads
           /\ solutionChannels' = Solution(sel, numUnknowns)
           /\ junk' = [junk EXCEPT !.f = jf]
  /\ pc' = "compose"
  /\ UNCHANGED <<inputs, outImage, ret, varMap, numUnknowns, mt, mat, info,
                 maskReads>>

\* lines 305-340
Compose ==
  /\ pc = "compose"
  /\ outImage' = ComposeScan(1, PushTarget(outImage))
  /\ ret' = TRUE
  /\ pc' = "done"
  /\ UNCHANGED <<inputs, varMap, numUnknowns, mt, mat, info, bvec,
                 solutionChannels, junk, maskReads, sourceReads>>

Next ==
  \/ SanityCheck
  \/ IndexPass
  \/ MatrixPass
  \/ Fault
  \/ Factorize
  \/ RhsAndSolve
  \/ Compose

\* the state main() calls PoissonBlend in (lines 151-161 of app/main.cpp)
Entry(mask, source, target, x, y, out) ==
  /\ maskImage = mask
  /\ sourceImage = source
  /\ targetImage = target
  /\ mx = x
  /\ my = y
  /\ outImage = out
  /\ outEntry = out
  /\ pc = "check"
  /\ ret = "none"
  /\ varMap = <<>>
  /\ numUnknowns = 0
  /\ mt = <<>>
  /\ mat = <<>>
  /\ info = "none"
  /\ bvec = <<>>
  /\ solutionChannels = <<>>
  /\ junk = [mask |-> <<>>, f |-> 0]
  /\ maskReads = {}
  /\ sourceReads = {}

\* the output vectors a call is entered with: main's is empty; a vector that
\* holds a byte already is tried with the one-pixel masks
Outputs(w, h) == IF w * h = 1 THEN {<<>>, <<7>>} ELSE {<<>>}

\* every mask of the bounds, a source of the mask's size, a target, an offset
Init ==
  \E w \in 1 .. MaxMaskPixels, h \in 1 .. MaxMaskPixels,
     tw \in MaxTargetW - 1 .. MaxTargetW, th \in MaxTargetH - 1 .. MaxTargetH,
     x \in Offsets, y \in Offsets :
    /\ w * h <= MaxMaskPixels
    /\ \E mask \in Masks(w, h), out \in Outputs(w, h) :
         Entry(mask, SourceRamp(w, h), TargetRamp(tw, th), x, y, out)

Spec == Init /\ [][Next]_vars

\* the end-to-end scenario of the specification: a 10x10 mid-gray target, a
\* 4x4 white source, a 4x4 white mask, placed at (3, 3); and the rejected
\* scenario, the same with mx = 0
InitScenario ==
  \E x \in {3, 0} :
    Entry([data |-> [i \in 0 .. 15 |-> WHITE], width |-> 4, height |-> 4],
          Uniform(4, 4, WHITE), Uniform(10, 10, GRAY), x, 3, <<>>)

SpecScenario == InitScenario /\ [][Next]_vars

\* ------------------------------------------------------------- the claims

\* what the claims call the dimensions
maskW == maskImage.width
maskH == maskImage.height
targetW == targetImage.width
targetH == targetImage.height

\* the call returned false at the sanity check
Rejected == pc = "done" /\ ret = FALSE

\* mask pixel (x, y) is inside the blend region: its red channel is >= 0.99
Inside(x, y) ==
  /\ x \in 0 .. maskW - 1
  /\ y \in 0 .. maskH - 1
  /\ maskImage.data[maskW * y + x] * 100 >= 99 * FIX

InsidePixels == { p \in (0 .. maskW - 1) \X (0 .. maskH - 1) : Inside(p[1], p[2]) }

\* the number of inside pixels before (x, y) in the row-major scan
Rank(x, y) ==
  Cardinality({ q \in InsidePixels : q[2] < y \/ (q[2] = y /\ q[1] < x) })

\* C1: the sanity check rejects exactly when mx = 0, or my = 0, or
\* mx + maskW >= targetW - 1, or my + maskH >= targetH - 1 (in the integers,
\* for every offset), and a rejected call has built no index map and no
\* triplets and has left outImage as it was on entry.
C1_RejectsExactly ==
  pc # "check" =>
    /\ Rejected <=> (\/ mx = 0
                     \/ my = 0
                     \/ mx + maskW >= targetW - 1
                     \/ my + maskH >= targetH - 1)
    /\ Rejected => varMap = <<>> /\ mt = <<>> /\ outImage = outEntry

\* C2: every placement that leaves a margin of one target pixel on all four
\* sides (mx >= 1, my >= 1, mx + maskW <= targetW - 1, my + maskH <=
\* targetH - 1) passes the sanity check.
C2_AcceptsOnePixelMargin ==
  ( /\ pc # "check"
    /\ mx >= 1
    /\ my >= 1
    /\ mx + maskW <= targetW - 1
    /\ my + maskH <= targetH - 1 ) => ~Rejected

\* C3: when the factorization (or a solve) reports failure the call returns
\* false and writes nothing to outImage; it returns true only if they
\* succeeded.
C3_SolverFailureReturnsFalse ==
  pc = "done" =>
    /\ info = "NumericalIssue" => ret = FALSE /\ outImage = outEntry
    /\ ret = TRUE => info = "Success"

\* C4: a neighbour probe whose coordinate is outside [0, maskW) x [0, maskH)
\* evaluates to false and reads no element of the mask buffer.
C4_OutsideProbesReadNothing ==
  \A rd \in maskReads :
    (rd.x >= maskW \/ rd.y >= maskH) => ~rd.val /\ ~rd.deref

\* C5: after the index pass numUnknowns is the number of mask pixels whose
\* red channel is >= 0.99, and the index map gives exactly those pixels the
\* ids 0, 1, ... in row-major order (the k-th of them gets id k).
C5_IndexMap ==
  pc = "matrix" =>
    /\ numUnknowns = Cardinality(InsidePixels)
    /\ DOMAIN varMap = { maskW * p[2] + p[1] : p \in InsidePixels }
    /\ \A p \in InsidePixels : varMap[maskW * p[2] + p[1]] = Rank(p[1], p[2])

\* C5's case: a mask with an outside pixel before two inside ones
C5_Witness ==
  /\ pc = "matrix"
  /\ ~Inside(0, 0)
  /\ numUnknowns >= 2

\* the matrix has been assembled (setFromTriplets has run)
MatrixBuilt == pc \in {"rhs", "compose"} \/ (pc = "done" /\ ret = TRUE)

\* the inside pixel whose id is i
PixelOfId(i) == CHOOSE p \in InsidePixels : Rank(p[1], p[2]) = i

\* q is directly above, below, left or right of p in the mask grid
Adjacent(p, q) ==
  \/ p[1] = q[1] /\ (p[2] = q[2] + 1 \/ q[2] = p[2] + 1)
  \/ p[2] = q[2] /\ (p[1] = q[1] + 1 \/ q[1] = p[1] + 1)

\* the discrete Laplacian of the blend region
Laplacian(r, c) ==
  IF r = c THEN 4
  ELSE IF Adjacent(PixelOfId(r), PixelOfId(c)) THEN 0 - 1 ELSE 0

\* C6: the assembled matrix has 4 at (id(p), id(p)), -1 at (id(p), id(q)) for
\* exactly the unknown pixels q directly above, below, left or right of p,
\* and 0 everywhere else.
C6_MatrixIsLaplacian ==
  MatrixBuilt =>
    \A r \in 0 .. numUnknowns - 1, c \in 0 .. numUnknowns - 1 :
      mat[<<r, c>>] = Laplacian(r, c)

\* C7: the assembled matrix is symmetric.
C7_MatrixSymmetric ==
  MatrixBuilt =>
    \A r \in 0 .. numUnknowns - 1, c \in 0 .. numUnknowns - 1 :
      mat[<<r, c>>] = mat[<<c, r>>]

\* target pixel (px, py) is the image (x + mx, y + my) of an unknown (x, y)
IsImage(px, py) ==
  \E p \in InsidePixels : px = p[1] + mx /\ py = p[2] + my

\* the four bytes of target pixel (px, py) in outImage
OutPixel(px, py) ==
  [c \in 0 .. 3 |-> outImage[4 * (targetW * py + px) + c + 1]]

\* C8: a call that was entered with an empty outImage and returned true
\* leaves 4 * targetW * targetH bytes, every alpha byte 255, and in every
\* pixel that is not the image of an unknown the gamma-encoded R, G, B of
\* the target pixel at that place.
C8_OutputFrame ==
  (pc = "done" /\ ret = TRUE /\ outEntry = <<>>) =>
    /\ Len(outImage) = 4 * targetW * targetH
    /\ \A px \in 0 .. targetW - 1, py \in 0 .. targetH - 1 :
         /\ OutPixel(px, py)[3] = 255
         /\ ~IsImage(px, py) =>
              \A c \in 0 .. 2 :
                OutPixel(px, py)[c] =
                  GammaEncode(targetImage.data[targetW * py + px][c + 1])

\* C8's case: the compositor has overwritten the image of an unknown
C8_Witness ==
  /\ pc = "done" /\ ret = TRUE /\ outEntry = <<>>
  /\ \E px \in 0 .. targetW - 1, py \in 0 .. targetH - 1 :
       /\ IsImage(px, py)
       /\ \E c \in 0 .. 2 :
            OutPixel(px, py)[c] #
              GammaEncode(targetImage.data[targetW * py + px][c + 1])

\* the source pixel a read in direction d of (x, y) is meant to reach:
\* 1 the pixel, 2 above, 3 left, 4 below, 5 right
NeighbourX(x, d) == IF d = 3 THEN x - 1 ELSE IF d = 5 THEN x + 1 ELSE x
NeighbourY(y, d) == IF d = 2 THEN y - 1 ELSE IF d = 4 THEN y + 1 ELSE y

\* C10: every index the right-hand-side pass reads the source buffer at lies
\* in [0, sourceW * sourceH) and is that of the geometrically adjacent source
\* pixel.
C10_SourceReadsInRange ==
  \A rd \in sourceReads :
    /\ rd.idx \in 0 .. Size(sourceImage) - 1
    /\ NeighbourX(rd.x, rd.d) \in 0 .. sourceImage.width - 1
    /\ NeighbourY(rd.y, rd.d) \in 0 .. sourceImage.height - 1
    /\ rd.idx = sourceImage.width * NeighbourY(rd.y, rd.d) + NeighbourX(rd.x, rd.d)

\* row r of the matrix times the uniform vector of value v
RowTimesUniform(r, v) ==
  LET RECURSIVE Sum(_)
      Sum(j) == IF j >= numUnknowns THEN 0 ELSE mat[<<r, j>>] * v + Sum(j + 1)
  IN  Sum(0)

\* the uniform vector of value v satisfies row r of M x = b, in every channel
SolvesRow(r, v) == \A c \in 1 .. 3 : RowTimesUniform(r, v) = bvec[c][r]

\* the end-to-end scenario has reached its solves
ScenarioSolved == mx = 3 /\ pc \in {"compose", "done"}

====
